---- MODULE Spec2Model ----
(***************************************************************************)
(* A model of hierarchy.py: class Hierarchy (constructor with _get_paths, *)
(* from_structure, expand, add_to_def_df, wrap_in_def_df).                 *)
(*                                                                         *)
(* Data frames are sequences of rows; a row is a record of its cells.      *)
(* Node keys are small integers.  pandas' missing value and the empty      *)
(* string written by fillna('') are the two reserved cell values NaN and   *)
(* Blank.  Whether the root value is a Python str or not is kept in        *)
(* rootType, because expand compares path cells with a string literal.     *)
(***************************************************************************)
EXTENDS Integers, Sequences, FiniteSets, TLC

\* ---------------------------------------------------------------- bounds
MaxKey   == 3      \* node keys are 1..MaxKey, the explicit root is 0
MaxRows  == 3      \* rows of a definition table (constructor, from_structure)
MaxFacts == 2      \* rows of a fact table
MaxCalls == 2      \* calls of add_to_def_df on one Hierarchy
MaxLabels  == 3    \* labels of one structural string

\* ------------------------------------------------------ program constants
DEFAULT_LEVEL == 999
NaN    == -1
Blank  == -2
NoRoot == -3
RootCell == -4

PARENT_PREFIX == "parent_"

Keys       == 1..MaxKey
ParentKeys == 0..MaxKey
FactKeys   == 1..(MaxKey + 1)

SeqsUpTo(S, lo, hi) == UNION {[1..k -> S] : k \in lo..hi}

VARIABLES
    arg_def_df,   \* the def_df argument of the constructor: rows [name, parent]
    arg_root,     \* the root argument (NoRoot: root=None)
    rootType,     \* "str" or "int": the Python type of the root value
    pc,           \* "new", "ready", or the exception that ended construction
    root_node,    \* self.root_node
    def_df,       \* self.def_df: [cols: added column names, rows: node rows]
    paths_df,     \* self.paths_df: node key -> path (root first, node last)
    pers,         \* the fact table given to the calls: keys, pnr = position
    loaded,       \* whether a call has been given a fact table yet
    last,         \* the last call: [op, fn]
    out,          \* what the last call returned
    prev_def_df,  \* self.def_df before the last add_to_def_df
    calls,        \* the reducers of the add_to_def_df calls so far
    src_df,       \* from_structure: the def_df argument (keys and labels)
    fs_name,      \* from_structure: the name argument
    struc_field,  \* from_structure: "column" (one string column) or "list"
    fs_df         \* from_structure: df with the derived parent column

vars == <<arg_def_df, arg_root, rootType, pc, root_node, def_df, paths_df,
          pers, loaded, last, out, prev_def_df, calls,
          src_df, fs_name, struc_field, fs_df>>

fsvars == <<src_df, fs_name, struc_field, fs_df>>

\* ------------------------------------------------------------ networkx
\* nx.from_pandas_edgelist(def_df, parent_name, name, create_using=DiGraph)
GNodes(rows) == {rows[i].name : i \in 1..Len(rows)} \cup {rows[i].parent : i \in 1..Len(rows)}
GEdges(rows) == {<<rows[i].parent, rows[i].name>> : i \in 1..Len(rows)}

\* breadth-first search over paths; << >> when the target cannot be reached
RECURSIVE bfs(_, _, _, _)
bfs(E, frontier, seen, target) ==
    IF \E p \in frontier : p[Len(p)] = target
    THEN CHOOSE p \in frontier : p[Len(p)] = target
    ELSE IF frontier = {} THEN << >>
    ELSE LET nxt == UNION {{Append(p, e[2]) : e \in {d \in E : d[1] = p[Len(p)] /\ d[2] \notin seen}}
                           : p \in frontier}
         IN  bfs(E, nxt, seen \cup {p[Len(p)] : p \in nxt}, target)

shortest_path(E, source, target) == bfs(E, {<<source>>}, {source}, target)

\* ------------------------------------------------------ Hierarchy.__init__
Duplicated(rows) == \E i, j \in 1..Len(rows) : i # j /\ rows[i].name = rows[j].name

\* _get_paths: the dict paths (levels is Len - 1 of each)
get_paths(rows, root) ==
    [n \in GNodes(rows) \ {root} |-> shortest_path(GEdges(rows), root, n)]

get_levels_len(paths) == [n \in DOMAIN paths |-> Len(paths[n])]

get_levels(paths) == [n \in DOMAIN paths |-> Len(paths[n]) - 1]

\* rows: [name, parent, ix] (ix is the row's index label)
Construct(rows, root) ==
    LET r      == IF root = NoRoot THEN rows[1].parent ELSE root
        paths  == get_paths(rows, r)
        levels == get_levels(paths)
        empty  == [pc |-> "new", root_node |-> r,
                   def_df |-> [cols |-> << >>, rows |-> << >>],
                   paths_df |-> << >>]
    IN  IF Duplicated(rows) THEN [empty EXCEPT !.pc = "ValueError"]
        ELSE IF GNodes(rows) \ {r} # {} /\ r \notin GNodes(rows)
             THEN [empty EXCEPT !.pc = "NodeNotFound"]
        ELSE IF \E n \in DOMAIN paths : paths[n] = << >>
             THEN [empty EXCEPT !.pc = "NetworkXNoPath"]
        ELSE [pc |-> "ready", root_node |-> r,
              def_df |-> [cols |-> << >>,
                          rows |-> [i \in 1..Len(rows) |->
                              [name    |-> rows[i].name,
                               parent  |-> rows[i].parent,
                               h_ix    |-> rows[i].ix,
                               h_level |-> IF rows[i].name \in DOMAIN levels
                                           THEN levels[rows[i].name]
                                           ELSE DEFAULT_LEVEL,
                               agg     |-> << >>]]],
              paths_df |-> paths]

WithIndex(rows) == [i \in 1..Len(rows) |-> [name |-> rows[i].name, parent |-> rows[i].parent, ix |-> i - 1]]

NoCall == [op |-> "none", fn |-> "none"]

Init ==
    /\ arg_def_df \in SeqsUpTo([name : Keys, parent : ParentKeys], 1, MaxRows)
    /\ arg_root \in {NoRoot, 0}
    /\ rootType \in {"str", "int"}
    /\ pc = "new"
    /\ root_node = NoRoot
    /\ def_df = [cols |-> << >>, rows |-> << >>]
    /\ paths_df = << >>
    /\ pers = << >>
    /\ loaded = FALSE
    /\ last = NoCall
    /\ out = << >>
    /\ prev_def_df = [cols |-> << >>, rows |-> << >>]
    /\ calls = << >>
    /\ src_df = << >>
    /\ fs_name = "dept"
    /\ struc_field = "none"
    /\ fs_df = << >>

New ==
    /\ pc = "new"
    /\ struc_field = "none"
    /\ LET h == Construct(WithIndex(arg_def_df), arg_root)
       IN  /\ pc' = h.pc
           /\ root_node' = h.root_node
           /\ def_df' = h.def_df
           /\ paths_df' = h.paths_df
    /\ UNCHANGED <<arg_def_df, arg_root, rootType, pers, loaded, last, out, prev_def_df, calls, fsvars>>

\* ------------------------------------------------------------ pandas
RECURSIVE Flatten(_)
Flatten(ss) == IF ss = << >> THEN << >> ELSE Head(ss) \o Flatten(Tail(ss))

Range(s) == {s[i] : i \in 1..Len(s)}

Missing(v) == v = NaN \/ v = Blank

\* the order of sort_values(by=[IX_COL, LEVEL_COL]): numbers ascending, then
\* the cells that hold no number (NaN; the string '' sorts after numbers)
IxLess(a, b) == ~Missing(a) /\ (Missing(b) \/ a < b)
KeyLE(a, b) == IxLess(a.h_ix, b.h_ix) \/ (~IxLess(b.h_ix, a.h_ix) /\ a.h_level <= b.h_level)

\* stable sort: a row goes after the rows already placed that are not greater
Insert(r, t) ==
    LET k == Cardinality({i \in 1..Len(t) : KeyLE(t[i], r)})
    IN  SubSeq(t, 1, k) \o <<r>> \o SubSeq(t, k + 1, Len(t))

RECURSIVE SortPrefix(_, _)
SortPrefix(s, n) == IF n = 0 THEN << >> ELSE Insert(s[n], SortPrefix(s, n - 1))

sort_values_unsorted(s) == s

sort_values(s) == SortPrefix(s, Len(s))

\* the rows of table t whose name cell is k, in t's order (one side of a merge)
Matches(t, k) == SelectSeq(t, LAMBDA d : d.name = k)

\* ------------------------------------------------------------- expand
\* a fact table: the name column holds the given keys, pnr the row's number
Facts(keys) == [i \in 1..Len(keys) |-> [name |-> keys[i], pnr |-> i]]

Max(S) == IF S = {} THEN 0 ELSE CHOOSE m \in S : \A x \in S : x <= m

\* paths_df has one column per path position, short paths padded with NaN
PathWidth == Max({Len(paths_df[n]) : n \in DOMAIN paths_df})
PathCell(k, j) ==
    IF k \in DOMAIN paths_df /\ j <= Len(paths_df[k]) THEN paths_df[k][j] ELSE NaN

\* df.merge(paths_df, how='left').melt(id_vars=cols, value_name=val_name,
\* var_name=LEVEL_COL): one row per (path column, fact row), column-major
melt(df) ==
    [m \in 1..(PathWidth * Len(df)) |->
        LET j == (m - 1) \div Len(df)
            i == ((m - 1) % Len(df)) + 1
        IN  [name |-> df[i].name, pnr |-> df[i].pnr,
             h_level |-> j, h_val |-> PathCell(df[i].name, j + 1)]]

\* .query('%s!="%s"' % (val_name, self.root_node)): the cell differs from the
\* string literal that spells the root; only a str cell can equal it
query_ne_root(v) == ~(rootType = "str" /\ v = root_node)

\* .merge(self.def_df, on=self.name, how='left', suffixes=('', '_y')) of one row
merge_def(r) ==
    LET m == Matches(def_df.rows, r.name)
    IN  IF m = << >>
        THEN <<[name |-> r.name, pnr |-> r.pnr, h_ix |-> NaN, h_level |-> r.h_level]>>
        ELSE [i \in 1..Len(m) |->
                [name |-> r.name, pnr |-> r.pnr, h_ix |-> m[i].h_ix, h_level |-> r.h_level]]

expand(df) ==
    LET kept    == SelectSeq(melt(df), LAMBDA r : query_ne_root(r.h_val) /\ r.h_val # NaN)
        renamed == [i \in 1..Len(kept) |->
                      [name |-> kept[i].h_val, pnr |-> kept[i].pnr, h_level |-> kept[i].h_level]]
    IN  sort_values(Flatten([i \in 1..Len(renamed) |-> merge_def(renamed[i])]))

\* ------------------------------------------------------ add_to_def_df
RECURSIVE SumPnr(_)
SumPnr(s) == IF s = << >> THEN 0 ELSE Head(s).pnr + SumPnr(Tail(s))

agg_count(rows, fn) == Len(rows)

agg(rows, fn) == IF fn = "count" THEN Len(rows) ELSE SumPnr(rows)

RECURSIVE SortedSeq(_)
SortedSeq(S) == IF S = {} THEN << >>
                ELSE LET m == CHOOSE x \in S : \A y \in S : x <= y
                     IN  <<m>> \o SortedSeq(S \ {m})

groupby_agg_ungrouped(e, fn) == [i \in 1..Len(e) |-> [name |-> e[i].name, v |-> e[i].pnr]]

\* self.expand(tdf).groupby(self.name).agg(fn).reset_index(): one row per key
groupby_agg(e, fn) ==
    LET ks == SortedSeq({e[i].name : i \in 1..Len(e)})
    IN  [g \in 1..Len(ks) |-> [name |-> ks[g], v |-> agg(Matches(e, ks[g]), fn)]]

\* the column names of left.merge(right, on=name) when right adds column c
merge_cols(cols, c) ==
    IF c \in Range(cols)
    THEN [i \in 1..Len(cols) |-> IF cols[i] = c THEN c \o "_x" ELSE cols[i]] \o <<c \o "_y">>
    ELSE Append(cols, c)

fillna(v, w) == IF v = NaN THEN w ELSE v

\* self.def_df.merge(tdf, on=self.name, how='left').fillna('')
merge_agg(d, tdf, c) ==
    [cols |-> merge_cols(d.cols, c),
     rows |-> Flatten([k \in 1..Len(d.rows) |->
                LET r == d.rows[k]
                    m == Matches(tdf, r.name)
                    old == [i \in 1..Len(r.agg) |-> fillna(r.agg[i], Blank)]
                IN  IF m = << >>
                    THEN <<[r EXCEPT !.agg = Append(old, Blank)]>>
                    ELSE [i \in 1..Len(m) |-> [r EXCEPT !.agg = Append(old, fillna(m[i].v, Blank))]]])]

add_to_def_df(df, agg_col, fn) == merge_agg(def_df, groupby_agg(expand(df), fn), agg_col)

\* ----------------------------------------------------- wrap_in_def_df
wrap_fact_node_level(r) ==
    LET m == Matches(def_df.rows, r.name)
    IN  IF m = << >>
        THEN <<[name |-> r.name, parent |-> Blank, h_ix |-> Blank,
                h_level |-> DEFAULT_LEVEL, agg |-> [i \in 1..Len(def_df.cols) |-> Blank], pnr |-> r.pnr]>>
        ELSE [i \in 1..Len(m) |->
                [name |-> r.name, parent |-> m[i].parent, h_ix |-> m[i].h_ix,
                 h_level |-> m[i].h_level, agg |-> m[i].agg, pnr |-> r.pnr]]

\* df.assign(h_level=999).merge(def_df.drop(columns=LEVEL_COL), how='left').fillna('')
wrap_fact(r) ==
    LET m == Matches(def_df.rows, r.name)
        blanks == [i \in 1..Len(def_df.cols) |-> Blank]
    IN  IF m = << >>
        THEN <<[name |-> r.name, parent |-> Blank, h_ix |-> Blank,
                h_level |-> DEFAULT_LEVEL, agg |-> blanks, pnr |-> r.pnr]>>
        ELSE [i \in 1..Len(m) |->
                [name |-> r.name, parent |-> m[i].parent, h_ix |-> m[i].h_ix,
                 h_level |-> DEFAULT_LEVEL, agg |-> m[i].agg, pnr |-> r.pnr]]

\* pd.concat(df_list, ignore_index=True, sort=False), then .fillna('')
pd_concat(defs, facts) ==
    [i \in 1..Len(defs) |->
        [name |-> defs[i].name, parent |-> defs[i].parent, h_ix |-> defs[i].h_ix,
         h_level |-> defs[i].h_level, agg |-> defs[i].agg, pnr |-> Blank]] \o facts

wrap_in_def_df(df) == sort_values(pd_concat(def_df.rows, Flatten([i \in 1..Len(df) |-> wrap_fact(df[i])])))

\* ----------------------------------------------------- from_structure
DELIM == "|"

\* the string 'root'
ROOT_STRUC == <<"r", "o", "o", "t">>

\* strings are sequences of characters; the labels are '' and 'A'
Labels == {<< >>, <<"A">>}

\* delim.join(parts)
RECURSIVE join(_, _)
join(delim, parts) ==
    IF parts = << >> THEN << >>
    ELSE IF Len(parts) = 1 THEN parts[1]
    ELSE parts[1] \o <<delim>> \o join(delim, Tail(parts))

\* delim.join([row[col] for col in struc_field if row[col]])
struc_of_list(labels, delim) == join(delim, SelectSeq(labels, LAMBDA l : l # << >>))

\* str.rfind: the 0-based position of the last occurrence, -1 when there is none
rfind(s, c) ==
    LET I == {i \in 1..Len(s) : s[i] = c}
    IN  IF I = {} THEN -1 ELSE Max(I) - 1

strip_at_first(s, delim) ==
    LET I == {i \in 1..Len(s) : s[i] = delim}
    IN  IF I = {} THEN ROOT_STRUC ELSE SubSeq(s, 1, (CHOOSE i \in I : \A j \in I : i <= j) - 1)

strip_from_right(s, delim) ==
    LET index == rfind(s, delim)
    IN  IF index # -1 THEN SubSeq(s, 1, index) ELSE ROOT_STRUC

\* .replace({'root': root}) of a cell
replace_root(v, root) == IF v = RootCell THEN root ELSE v

\* from_structure up to the reindex: the rows [name, parent, ix] of df
derive_parents(src, mode, root, delim) ==
    LET df == [i \in 1..Len(src) |->
                  LET struc == IF mode = "list" THEN struc_of_list(src[i].labels, delim)
                               ELSE src[i].struc
                  IN  [name |-> src[i].name, struc |-> struc,
                       parent_struc |-> strip_from_right(struc, delim)]]
        struc_to_name == [i \in 1..Len(df) |-> [parent_name |-> df[i].name, parent_struc |-> df[i].struc]]
                         \o <<[parent_name |-> RootCell, parent_struc |-> ROOT_STRUC]>>
        merged == Flatten([k \in 1..Len(df) |->
                    LET r == df[k]
                        m == SelectSeq(struc_to_name, LAMBDA t : t.parent_struc = r.parent_struc)
                    IN  IF m = << >> THEN <<[name |-> r.name, parent |-> NaN]>>
                        ELSE [j \in 1..Len(m) |->
                                [name |-> r.name, parent |-> replace_root(m[j].parent_name, root)]]])
    IN  [i \in 1..Len(merged) |-> [name |-> merged[i].name, parent |-> merged[i].parent, ix |-> i - 1]]

\* errmask = df.parent_dept.isnull(); df = df[~errmask]; return cls(df, name, root)
build(df, name, root) ==
    IF PARENT_PREFIX \o name # "parent_dept"
    THEN [pc |-> "AttributeError", root_node |-> NoRoot,
          def_df |-> [cols |-> << >>, rows |-> << >>], paths_df |-> << >>]
    ELSE Construct(SelectSeq(df, LAMBDA r : r.parent # NaN), root)

Strucs == {join(DELIM, parts) : parts \in SeqsUpTo(Labels, 1, MaxLabels)}

\* the tables given to from_structure: row i has key i
SrcTables(mode) ==
    IF mode = "list"
    THEN {[i \in 1..n |-> [name |-> i, labels |-> ls[i]]] :
            <<n, ls>> \in {x \in (1..MaxRows) \X SeqsUpTo([1..MaxLabels -> Labels], 1, MaxRows) :
                              Len(x[2]) = x[1]}}
    ELSE {[i \in 1..n |-> [name |-> i, struc |-> ss[i]]] :
            <<n, ss>> \in {x \in (1..MaxRows) \X SeqsUpTo(Strucs, 1, MaxRows) :
                              Len(x[2]) = x[1]}}

InitFS ==
    /\ struc_field \in {"column", "list"}
    /\ src_df \in SrcTables(struc_field)
    /\ fs_name \in {"dept", "oe"}
    /\ fs_df = << >>
    /\ arg_def_df = << >>
    /\ arg_root = 0
    /\ rootType = "str"
    /\ pc = "new"
    /\ root_node = NoRoot
    /\ def_df = [cols |-> << >>, rows |-> << >>]
    /\ paths_df = << >>
    /\ pers = << >>
    /\ loaded = FALSE
    /\ last = NoCall
    /\ out = << >>
    /\ prev_def_df = [cols |-> << >>, rows |-> << >>]
    /\ calls = << >>

FromStructure ==
    /\ pc = "new"
    /\ struc_field # "none"
    /\ LET df == derive_parents(src_df, struc_field, arg_root, DELIM)
           h  == build(df, fs_name, arg_root)
       IN  /\ fs_df' = df
           /\ pc' = h.pc
           /\ root_node' = h.root_node
           /\ def_df' = h.def_df
           /\ paths_df' = h.paths_df
    /\ UNCHANGED <<arg_def_df, arg_root, rootType, pers, loaded, last, out, prev_def_df,
                   calls, src_df, fs_name, struc_field>>

\* ------------------------------------------------------------ actions
AGG_COL == "p_count"

\* the fact tables a call may be given: the calls of one run get the same one
FactTables == IF loaded THEN {pers} ELSE SeqsUpTo(FactKeys, 0, MaxFacts)

FactTable(d) ==
    /\ pers' = d
    /\ loaded' = TRUE

Expand ==
    /\ pc = "ready"
    /\ \E d \in FactTables :
          /\ FactTable(d)
          /\ out' = expand(Facts(d))
    /\ last' = [op |-> "expand", fn |-> "none"]
    /\ UNCHANGED <<arg_def_df, arg_root, rootType, pc, root_node, def_df, paths_df,
                   prev_def_df, calls, fsvars>>

AddToDefDf ==
    /\ pc = "ready"
    /\ Len(calls) < MaxCalls
    /\ \E d \in FactTables, fn \in {"count", "sum"} :
          /\ FactTable(d)
          /\ def_df' = add_to_def_df(Facts(d), AGG_COL, fn)
          /\ last' = [op |-> "add", fn |-> fn]
          /\ calls' = Append(calls, fn)
    /\ prev_def_df' = def_df
    /\ out' = << >>
    /\ UNCHANGED <<arg_def_df, arg_root, rootType, pc, root_node, paths_df, fsvars>>

WrapInDefDf ==
    /\ pc = "ready"
    /\ \E d \in FactTables :
          /\ FactTable(d)
          /\ out' = wrap_in_def_df(Facts(d))
    /\ last' = [op |-> "wrap", fn |-> "none"]
    /\ UNCHANGED <<arg_def_df, arg_root, rootType, pc, root_node, def_df, paths_df,
                   prev_def_df, calls, fsvars>>

Next == New \/ Expand \/ AddToDefDf \/ WrapInDefDf

Spec == Init /\ [][Next]_vars

NextFS == FromStructure

SpecFS == InitFS /\ [][NextFS]_vars

\* ===================================================================
\* Properties
\* ===================================================================
Constructed == pc # "new"

\* the root the constructor is told to use
GivenRoot == IF arg_root = NoRoot THEN arg_def_df[1].parent ELSE arg_root

ArgKeys == {arg_def_df[i].name : i \in 1..Len(arg_def_df)}

\* the nodes that can be reached from the root along parent -> child links
RECURSIVE Closure(_, _)
Closure(S, E) ==
    LET T == S \cup {e[2] : e \in {d \in E : d[1] \in S}}
    IN  IF T = S THEN S ELSE Closure(T, E)

Reachable == Closure({GivenRoot}, GEdges(arg_def_df))

\* a valid tree: unique keys, every node reachable from the root
ValidTree == ~Duplicated(arg_def_df) /\ GNodes(arg_def_df) \subseteq Reachable

\* the parent cell of the row of key k
ParentOf(k) == arg_def_df[CHOOSE i \in 1..Len(arg_def_df) : arg_def_df[i].name = k].parent

\* p is the parent chain of n: root first, n last, each element the parent of
\* the next, the root nowhere but first
IsParentChain(p, n) ==
    /\ Len(p) >= 2
    /\ p[1] = root_node
    /\ p[Len(p)] = n
    /\ \A i \in 2..Len(p) : p[i] \in ArgKeys /\ p[i] # root_node /\ ParentOf(p[i]) = p[i - 1]

DefRows(k) == {i \in 1..Len(def_df.rows) : def_df.rows[i].name = k}

\* C1: after construction from a valid tree, every non-root node's stored path
\* is its parent chain from the root, the level on its row is the length of
\* that path minus one, and no path is stored for the root; in the chain
\* 0 - 1 - 2 - 3 node 3 has path <<0, 1, 2, 3>> and level 3.
C1_PathsAndLevels ==
    (Constructed /\ ValidTree) =>
        /\ pc = "ready"
        /\ root_node = GivenRoot
        /\ root_node \notin DOMAIN paths_df
        /\ \A n \in ArgKeys \ {root_node} :
              /\ n \in DOMAIN paths_df
              /\ IsParentChain(paths_df[n], n)
              /\ \A i \in DefRows(n) : def_df.rows[i].h_level = Len(paths_df[n]) - 1
        /\ (Range(arg_def_df) = {[name |-> 1, parent |-> 0], [name |-> 2, parent |-> 1],
                                 [name |-> 3, parent |-> 2]} /\ arg_root = 0)
             => /\ paths_df[3] = <<0, 1, 2, 3>>
                /\ \A i \in DefRows(3) : def_df.rows[i].h_level = 3

C1_Witness ==
    /\ pc = "ready"
    /\ ValidTree
    /\ arg_root = 0
    /\ Range(arg_def_df) = {[name |-> 1, parent |-> 0], [name |-> 2, parent |-> 1],
                            [name |-> 3, parent |-> 2]}
    /\ paths_df[3] = <<0, 1, 2, 3>>
    /\ \E i \in DefRows(3) : def_df.rows[i].h_level = 3

\* C5: a definition table with a non-root node that has no path from the root
\* is still constructed: the reachable nodes get their levels, the unreachable
\* ones stay in the node table with level 999.
C5_UnreachableNonFatal ==
    (Constructed /\ ~Duplicated(arg_def_df) /\ ~(GNodes(arg_def_df) \subseteq Reachable)) =>
        /\ pc = "ready"
        /\ \A n \in ArgKeys \ Reachable :
              DefRows(n) # {} /\ \A i \in DefRows(n) : def_df.rows[i].h_level = DEFAULT_LEVEL
        /\ \A n \in (ArgKeys \cap Reachable) \ {root_node} :
              DefRows(n) # {} /\ \A i \in DefRows(n) : def_df.rows[i].h_level = Len(paths_df[n]) - 1

\* C6: a definition table with a repeated key raises and builds nothing; a
\* constructed Hierarchy has, after any calls, exactly one node row per key of
\* the definition table.
C6_KeyUniqueness ==
    /\ (Constructed /\ Duplicated(arg_def_df)) =>
          pc = "ValueError" /\ paths_df = << >> /\ def_df.rows = << >>
    /\ pc = "ready" =>
          /\ Len(def_df.rows) = Len(arg_def_df)
          /\ \A k \in ArgKeys : Cardinality(DefRows(k)) = 1
          /\ \A i \in 1..Len(def_df.rows) : def_df.rows[i].name \in ArgKeys

C6_Witness ==
    /\ pc = "ready"
    /\ Len(calls) = MaxCalls
    /\ last.op = "wrap"
    /\ Len(pers) = MaxFacts
    /\ \A i \in 1..Len(pers) : pers[i] \in ArgKeys \ {root_node}
    /\ Cardinality(ArgKeys) >= 2

\* ------------------------------------------------------------ expand
\* the expanded rows of fact row i (pnr is the fact row's number)
OutOf(i) == SelectSeq(out, LAMBDA r : r.pnr = i)

Known(k) == k \in DOMAIN paths_df
LevelOf(k) == Len(paths_df[k]) - 1

RECURSIVE SumSet(_)
SumSet(S) == IF S = {} THEN 0 ELSE LET x == CHOOSE y \in S : TRUE IN x + SumSet(S \ {x})

RECURSIVE SumLevels(_)
SumLevels(n) ==
    IF n = 0 THEN 0
    ELSE (IF Known(pers[n]) THEN LevelOf(pers[n]) ELSE 0) + SumLevels(n - 1)

\* C2: expand emits for a fact row of a known node at level L exactly L rows,
\* one per level 1..L carrying the ancestor of that level, and none for a fact
\* row of an unknown key; the output has the sum of the levels rows.
C2_ExpandRows ==
    last.op = "expand" =>
        /\ \A i \in 1..Len(pers) :
              IF Known(pers[i])
              THEN /\ Len(OutOf(i)) = LevelOf(pers[i])
                   /\ \A l \in 1..LevelOf(pers[i]) :
                         \E a \in 1..Len(out) :
                            /\ out[a].pnr = i
                            /\ out[a].h_level = l
                            /\ out[a].name = paths_df[pers[i]][l + 1]
              ELSE OutOf(i) = << >>
        /\ Len(out) = SumLevels(Len(pers))

\* C7: the output of expand keeps the fact rows in their order (the rows of an
\* earlier fact row come before those of a later one) and lists, within one
\* fact row's rows, the ancestors root first.  (Stated for a root that is a
\* str, where expand drops the root's rows.)
C7_FactRowOrder ==
    (last.op = "expand" /\ rootType = "str") =>
        \A a, b \in 1..Len(out) :
            a < b => /\ out[a].pnr <= out[b].pnr
                     /\ out[a].pnr = out[b].pnr => out[a].h_level <= out[b].h_level

\* the ix cell of the node row of key k, NaN when the node table has no such row
NodeIx(k) == IF DefRows(k) = {} THEN NaN ELSE def_df.rows[CHOOSE i \in DefRows(k) : TRUE].h_ix

\* C7 (amended): the output of expand is ordered by the ix of the node each row
\* names (rows naming a key without a node row last), then by level.
C7_NodeIxOrder ==
    last.op = "expand" =>
        /\ \A a \in 1..Len(out) : out[a].h_ix = NodeIx(out[a].name)
        /\ \A a, b \in 1..Len(out) :
              a < b => \/ (out[a].h_ix # NaN /\ (out[b].h_ix = NaN \/ out[a].h_ix < out[b].h_ix))
                       \/ (out[a].h_ix = out[b].h_ix /\ out[a].h_level <= out[b].h_level)

\* an earlier fact row's expanded row follows a later fact row's
C7_Witness ==
    /\ last.op = "expand"
    /\ rootType = "str"
    /\ \E a, b \in 1..Len(out) : a < b /\ out[a].pnr > out[b].pnr
    /\ \E a, b \in 1..Len(out) : a < b /\ out[a].pnr = out[b].pnr /\ out[a].h_level > out[b].h_level

\* ----------------------------------------------------- add_to_def_df
\* k and its ancestors below the root, by the parent cells (n bounds the walk)
RECURSIVE UpChain(_, _)
UpChain(k, n) ==
    IF n = 0 \/ k = root_node \/ k \notin ArgKeys THEN {}
    ELSE {k} \cup UpChain(ParentOf(k), n - 1)

\* the fact rows whose node is n or a descendant of n
FactsUnder(n) == {i \in 1..Len(pers) : n \in UpChain(pers[i], Len(arg_def_df))}

RollUp(n, fn) == IF fn = "count" THEN Cardinality(FactsUnder(n)) ELSE SumSet(FactsUnder(n))

FirstCall == last.op = "add" /\ Len(calls) = 1

\* C3: after the first add_to_def_df every node's cell in the output column is
\* the count (the sum of the measure) of the fact rows in the node's subtree.
C3_RollUp ==
    FirstCall =>
        \A i \in 1..Len(def_df.rows) :
            def_df.rows[i].agg[1] = RollUp(def_df.rows[i].name, last.fn)

\* C3 (amended): the same for every non-root node with a fact row in its
\* subtree; the cell of a node with none is blank.
C3_RollUpOrBlank ==
    FirstCall =>
        /\ def_df.cols = <<AGG_COL>>
        /\ \A i \in 1..Len(def_df.rows) :
              LET n == def_df.rows[i].name
              IN  n # root_node =>
                    def_df.rows[i].agg = << IF FactsUnder(n) = {} THEN Blank ELSE RollUp(n, last.fn) >>

C3_Witness ==
    /\ FirstCall
    /\ last.fn = "sum"
    /\ \E i, j \in 1..Len(def_df.rows) :
          /\ def_df.rows[i].agg = <<Blank>>
          /\ def_df.rows[j].h_level = 1
          /\ Cardinality(FactsUnder(def_df.rows[j].name)) = 2
          /\ def_df.rows[j].agg = <<3>>
          /\ \E f \in 1..Len(pers) : pers[f] # def_df.rows[j].name

\* the cells of column c of table d
AggColumn(d, c) ==
    LET j == CHOOSE x \in 1..Len(d.cols) : d.cols[x] = c
    IN  [i \in 1..Len(d.rows) |-> d.rows[i].agg[j]]

\* C4: a second add_to_def_df with the same fact table, columns and reducer
\* leaves the node table with the output column holding what it held after the
\* first call.
C4_Idempotent ==
    (last.op = "add" /\ Len(calls) = 2 /\ calls[1] = calls[2]) =>
        /\ AGG_COL \in Range(def_df.cols)
        /\ AggColumn(def_df, AGG_COL) = AggColumn(prev_def_df, AGG_COL)

\* ---------------------------------------------------- wrap_in_def_df
Numbered(v) == v # NaN /\ v # Blank

Parsed == pc # "new" /\ struc_field # "none"

\* the labels joined in column order, the empty ones skipped
RECURSIVE Joined(_)
Joined(labels) ==
    IF labels = << >> THEN << >>
    ELSE LET rest == Joined(SubSeq(labels, 1, Len(labels) - 1))
             l    == labels[Len(labels)]
         IN  IF l = << >> THEN rest
             ELSE IF rest = << >> THEN l
             ELSE rest \o <<DELIM>> \o l

\* the structural string of source row i
SrcStruc(i) == IF struc_field = "list" THEN Joined(src_df[i].labels) ELSE src_df[i].struc

HasDelim(s) == \E j \in 1..Len(s) : s[j] = DELIM

\* t is s cut at the last delimiter of s
IsTruncation(t, s) ==
    \E j \in 1..Len(s) :
        /\ s[j] = DELIM
        /\ \A k \in (j + 1)..Len(s) : s[k] # DELIM
        /\ t = SubSeq(s, 1, j - 1)

\* the parent cells derived for the row of key k
DerivedParents(k) == {fs_df[a].parent : a \in {b \in 1..Len(fs_df) : fs_df[b].name = k}}

\* C9: the parent of a row is the key of the node whose structural string is
\* the row's string cut at the last delimiter; a row whose string has no
\* delimiter gets the root; for one string column and for a list of label
\* columns alike.
C9_ParentDerivation ==
    Parsed =>
        /\ \A i \in 1..Len(src_df) :
              LET s == SrcStruc(i)
                  P == {src_df[j].name : j \in {x \in 1..Len(src_df) : IsTruncation(SrcStruc(x), s)}}
              IN  IF HasDelim(s)
                  THEN DerivedParents(src_df[i].name) = (IF P = {} THEN {NaN} ELSE P)
                  ELSE DerivedParents(src_df[i].name) = {arg_root}
        /\ pc = "ready" =>
              \A i \in 1..Len(def_df.rows) :
                  def_df.rows[i].parent \in DerivedParents(def_df.rows[i].name) \ {NaN}

C9_Witness ==
    /\ Parsed
    /\ struc_field = "list"
    /\ pc = "ready"
    /\ \E i, j, k \in 1..Len(src_df) :
          /\ src_df[i].labels = <<<<"A">>, <<"A">>, <<"A">>>>
          /\ src_df[j].labels = <<<<"A">>, << >>, <<"A">>>>
          /\ src_df[k].labels = <<<< >>, <<"A">>, << >>>>
          /\ DerivedParents(src_df[i].name) = {src_df[j].name}
          /\ DerivedParents(src_df[j].name) = {src_df[k].name}
          /\ DerivedParents(src_df[k].name) = {arg_root}
          /\ \E r \in 1..Len(def_df.rows) :
                /\ def_df.rows[r].name = src_df[i].name
                /\ def_df.rows[r].parent = src_df[j].name
                /\ def_df.rows[r].h_level = 3

\* the rows of df whose parent was not found
Unresolved == {a \in 1..Len(fs_df) : fs_df[a].parent = NaN}

\* C10: whatever the name column, the rows whose parent is not found are
\* dropped, the call does not abort, and the Hierarchy is built from the rest.
C10_Lenient ==
    (Parsed /\ Unresolved # {}) =>
        /\ pc = "ready"
        /\ Len(def_df.rows) = Len(fs_df) - Cardinality(Unresolved)
        /\ {def_df.rows[i].name : i \in 1..Len(def_df.rows)}
              = {fs_df[a].name : a \in (1..Len(fs_df)) \ Unresolved}
====
